---- MODULE Spec2Model ----
(***************************************************************************)
(* Model of src/src/components/GeometryViewer.tsx: the GeometryViewer      *)
(* shell (toggle state, reset counter, hovered point), the render adapter  *)
(* GeometryLine (closing rule, fill, point markers, draw order) and the    *)
(* CameraController (fit to bounds, re-fit effects).                       *)
(*                                                                         *)
(* Numbers: shape coordinates are integers; every value the code derives   *)
(* by a division (bounding-box midpoint, zoom) is a fraction               *)
(* [num, den] in lowest terms.  den = 0 with num > 0 is the IEEE value     *)
(* +Infinity (a positive number divided by zero), num = den = 0 is NaN.    *)
(* An optional value (a prop that may be undefined, the hovered point that *)
(* may be null) is a sequence of length 0 or 1.                            *)
(***************************************************************************)
EXTENDS Integers, Sequences, FiniteSets, TLC

VARIABLES
    shapes,               \* the shapes prop of GeometryViewer
    externalShowPoints,   \* the showPoints prop (optional)
    externalShowGrid,     \* the showGrid prop (optional)
    externalShowFill,     \* the showFill prop (optional)
    showPoints,           \* useState, line 305
    showGrid,             \* useState, line 306
    showFill,             \* useState, line 307
    resetTrigger,         \* useState, line 308
    hoveredPoint,         \* useState, line 309
    camera,               \* the Canvas' orthographic camera: position, zoom
    controlsTarget,       \* OrbitControls.target
    entered,              \* the markers <<s, i>> a pointer is over: they have
                          \* delivered onPointerOver and not yet onPointerOut
    fitRuns               \* calls of resetCameraView made by the last commit

vars == <<shapes, externalShowPoints, externalShowGrid, externalShowFill,
          showPoints, showGrid, showFill, resetTrigger, hoveredPoint,
          camera, controlsTarget, entered, fitRuns>>

(***************************************************************************)
(* Bounds of the model.                                                    *)
(***************************************************************************)
\* Reset View is clicked at most this many times.
MaxResets == 2

\* At most this many markers are under a pointer at the same time.
MaxPointers == 2

\* The canvas size in pixels; the orthographic frustum has this extent
\* (camera.right - camera.left, camera.top - camera.bottom).
FrustumWidth == 10

FrustumHeight == 8

(***************************************************************************)
(* Optional values.                                                        *)
(***************************************************************************)
Undefined == <<>>

Null == <<>>

Some(v) == <<v>>

OptBool == {Undefined, Some(TRUE), Some(FALSE)}

\* prop ?? dflt
Coalesce(prop, dflt) == IF prop = Undefined THEN dflt ELSE prop[1]

(***************************************************************************)
(* Fractions.                                                              *)
(***************************************************************************)
Abs(n) == IF n < 0 THEN -n ELSE n

RECURSIVE GCD(_, _)
GCD(a, b) == IF b = 0 THEN a ELSE GCD(b, a % b)

\* n / d for d >= 0, in lowest terms; x / 0 is +-Infinity, 0 / 0 is NaN.
Div(n, d) ==
    IF n = 0 /\ d = 0 THEN [num |-> 0, den |-> 0]
    ELSE LET g == GCD(Abs(n), d) IN [num |-> n \div g, den |-> d \div g]

IsFinite(q) == q.den # 0

IsPositive(q) == q.num > 0

\* Math.min of two fractions that are positive or +Infinity.
MathMin2(a, b) == IF a.num * b.den <= b.num * a.den THEN a ELSE b

(***************************************************************************)
(* Shape model.                                                            *)
(***************************************************************************)
Pt(x, y) == [x |-> x, y |-> y]

Shape(id, type, points) == [id |-> id, type |-> type, points |-> points]

OpenTriangle == Shape("openTriangle", "polygon", <<Pt(0, 0), Pt(4, 0), Pt(2, 3)>>)

Triangle == Shape("triangle", "polygon", <<Pt(0, 0), Pt(4, 0), Pt(2, 3), Pt(0, 0)>>)

Segment == Shape("segment", "polygon", <<Pt(1, 1), Pt(3, 4)>>)

Zigzag == Shape("zigzag", "polyline", <<Pt(1, 2), Pt(4, 2)>>)

SinglePoint == Shape("point", "points", <<Pt(5, 5)>>)

Cloud == Shape("points", "points", <<Pt(0, 1), Pt(2, 5)>>)

NoPoints == Shape("empty", "polyline", <<>>)

\* The shape sets a parent passes to the viewer.
ShapeSets ==
    { <<>>,
      <<OpenTriangle>>,
      <<SinglePoint>>,
      <<Zigzag>>,
      <<NoPoints>>,
      <<Segment, Cloud>>,
      <<Triangle, SinglePoint>> }

(***************************************************************************)
(* Render adapter: GeometryLine.                                           *)
(***************************************************************************)
To3D(p) == [x |-> p.x, y |-> p.y, z |-> 0]

Points3D_CloseAny(shape) ==
    LET p3 == [i \in 1..Len(shape.points) |-> To3D(shape.points[i])]
    IN IF shape.type = "polygon" /\ Len(p3) > 1
          /\ (p3[1].x # p3[Len(p3)].x \/ p3[1].y # p3[Len(p3)].y)
       THEN Append(p3, p3[1])
       ELSE p3

\* points3D: the points at z = 0, plus the closing vertex of an open polygon.
Points3D(shape) ==
    LET p3 == [i \in 1..Len(shape.points) |-> To3D(shape.points[i])]
    IN IF shape.type = "polygon" /\ Len(p3) > 2
          /\ (p3[1].x # p3[Len(p3)].x \/ p3[1].y # p3[Len(p3)].y)
       THEN Append(p3, p3[1])
       ELSE p3

\* The renderOrder of an object that is given none.
DefaultRenderOrder == 0

LineRenderOrder == 2

MarkerRenderOrder == 999

GridRenderOrder == 0

AxisRenderOrder == 1

\* The <lineLoop> / <line> element: none for a point cloud.
LinePrimitive(shape) ==
    IF shape.type = "points" THEN Null
    ELSE Some([kind |-> IF shape.type = "polygon" THEN "lineLoop" ELSE "line",
               vertices |-> Points3D(shape),
               renderOrder |-> LineRenderOrder])

\* fillGeometry: moveTo(points[0]), lineTo(points[i]) for 1 <= i < length - 1.
FillVertices(shape) ==
    [i \in 1..(Len(shape.points) - 1) |-> shape.points[i]]

\* The fill <mesh>: its shape path; it is given no renderOrder.
FillPrimitive(shape, fill) ==
    IF shape.type = "polygon" /\ fill /\ Len(shape.points) > 2
    THEN Some([kind |-> "fill",
               vertices |-> FillVertices(shape),
               renderOrder |-> DefaultRenderOrder])
    ELSE Null

MarkersVisible(shape, points) == points \/ shape.type = "points"

\* The marker meshes: one per element of points3D.
MarkerPrimitives(shape, points) ==
    IF MarkersVisible(shape, points)
    THEN LET points3D == Points3D(shape)
         IN [i \in 1..Len(points3D) |->
               [kind |-> "marker",
                point |-> points3D[i],
                index |-> i - 1,
                renderOrder |-> MarkerRenderOrder]]
    ELSE <<>>

GridPrimitive(grid) ==
    IF grid THEN Some([kind |-> "grid", renderOrder |-> GridRenderOrder]) ELSE Null

AxisPrimitives ==
    << [kind |-> "axis", renderOrder |-> AxisRenderOrder],
       [kind |-> "axis", renderOrder |-> AxisRenderOrder] >>

\* The Canvas is rendered only for a non-empty shape set (line 331).
CanvasMounted == shapes # <<>>

Outlines == [s \in 1..Len(shapes) |-> LinePrimitive(shapes[s])]

Fills == [s \in 1..Len(shapes) |-> FillPrimitive(shapes[s], showFill)]

Markers == [s \in 1..Len(shapes) |-> MarkerPrimitives(shapes[s], showPoints)]

Range(f) == {f[i] : i \in DOMAIN f}

Layer(prims) == {[kind |-> p.kind, renderOrder |-> p.renderOrder] : p \in Range(prims)}

\* Every primitive of the rendered scene, as [kind, renderOrder].
ScenePrimitives ==
    IF ~CanvasMounted THEN {}
    ELSE Layer(GridPrimitive(showGrid)) \cup Layer(AxisPrimitives)
         \cup UNION {Layer(Outlines[s]) \cup Layer(Fills[s]) \cup Layer(Markers[s]) :
                        s \in 1..Len(shapes)}

(***************************************************************************)
(* Camera controller.                                                      *)
(***************************************************************************)
RECURSIVE FlatMapPoints(_)
\* shapes.flatMap(shape => shape.points)
FlatMapPoints(shps) ==
    IF shps = <<>> THEN <<>>
    ELSE Head(shps).points \o FlatMapPoints(Tail(shps))

RECURSIVE MathMin(_)
\* Math.min(...xs) of a non-empty list of integers
MathMin(xs) ==
    IF Len(xs) = 1 THEN xs[1]
    ELSE LET m == MathMin(Tail(xs)) IN IF xs[1] < m THEN xs[1] ELSE m

RECURSIVE MathMax(_)
\* Math.max(...xs) of a non-empty list of integers
MathMax(xs) ==
    IF Len(xs) = 1 THEN xs[1]
    ELSE LET m == MathMax(Tail(xs)) IN IF xs[1] > m THEN xs[1] ELSE m

\* minX, maxX, minY, maxY of all points (a non-empty list)
BoundingBox(allPoints) ==
    LET allX == [i \in 1..Len(allPoints) |-> allPoints[i].x]
        allY == [i \in 1..Len(allPoints) |-> allPoints[i].y]
    IN [minX |-> MathMin(allX), maxX |-> MathMax(allX),
        minY |-> MathMin(allY), maxY |-> MathMax(allY)]

\* const padding = 1
Padding == 1

\* camera.position.set(centerX, centerY, 10)
CameraHeight == 10

\* <Canvas orthographic camera={{ position: [0, 0, 10], zoom: 1 }}>
InitialCamera ==
    [position |-> [x |-> Div(0, 1), y |-> Div(0, 1), z |-> CameraHeight],
     zoom |-> Div(1, 1)]

\* The target of a new OrbitControls is the origin.
InitialTarget == [x |-> Div(0, 1), y |-> Div(0, 1), z |-> 0]

ResetCameraView_MaxZoom(cam, tgt, shps) ==
    LET allPoints == FlatMapPoints(shps) IN
    IF Len(shps) = 0 \/ Len(allPoints) = 0
    THEN [camera |-> cam, target |-> tgt]
    ELSE
      LET box == BoundingBox(allPoints)
          centerX == Div(box.minX + box.maxX, 2)
          centerY == Div(box.minY + box.maxY, 2)
          zoomX == Div(FrustumWidth, (box.maxX - box.minX) * (1 + Padding))
          zoomY == Div(FrustumHeight, (box.maxY - box.minY) * (1 + Padding))
          zoom == IF MathMin2(zoomX, zoomY) = zoomX THEN zoomY ELSE zoomX
      IN [camera |-> [position |-> [x |-> centerX, y |-> centerY, z |-> CameraHeight],
                      zoom |-> zoom],
          target |-> [x |-> centerX, y |-> centerY, z |-> 0]]

\* resetCameraView: fit the camera cam and the controls target tgt to shps.
ResetCameraView(cam, tgt, shps) ==
    LET allPoints == FlatMapPoints(shps) IN
    IF Len(shps) = 0 \/ Len(allPoints) = 0
    THEN [camera |-> cam, target |-> tgt]
    ELSE
      LET box == BoundingBox(allPoints)
          minX == box.minX
          maxX == box.maxX
          minY == box.minY
          maxY == box.maxY
          boundingWidth == maxX - minX
          boundingHeight == maxY - minY
          centerX == Div(minX + maxX, 2)
          centerY == Div(minY + maxY, 2)
          widthWithPadding == boundingWidth * (1 + Padding)
          heightWithPadding == boundingHeight * (1 + Padding)
          zoomX == Div(FrustumWidth, widthWithPadding)
          zoomY == Div(FrustumHeight, heightWithPadding)
          zoom == MathMin2(zoomX, zoomY)
      IN [camera |-> [position |-> [x |-> centerX, y |-> centerY, z |-> CameraHeight],
                      zoom |-> zoom],
          target |-> [x |-> centerX, y |-> centerY, z |-> 0]]

RunEffects_NoDeps(shapesChanged, triggerChanged, shps, trigger, cam, tgt) ==
    LET c1 == ResetCameraView(cam, tgt, shps)
        c2 == IF trigger > 0 THEN ResetCameraView(c1.camera, c1.target, shps) ELSE c1
    IN [camera |-> c2.camera, target |-> c2.target,
        runs |-> 1 + (IF trigger > 0 THEN 1 ELSE 0)]

\* The two effects of CameraController after a commit.  The first depends on
\* [shapes, resetCameraView], the second on [resetTrigger, resetCameraView];
\* resetCameraView is a new callback exactly when shapes is a new reference.
RunEffects(shapesChanged, triggerChanged, shps, trigger, cam, tgt) ==
    LET runFirst == shapesChanged
        runSecond == (triggerChanged \/ shapesChanged) /\ trigger > 0
        c1 == IF runFirst THEN ResetCameraView(cam, tgt, shps)
              ELSE [camera |-> cam, target |-> tgt]
        c2 == IF runSecond THEN ResetCameraView(c1.camera, c1.target, shps) ELSE c1
    IN [camera |-> c2.camera, target |-> c2.target,
        runs |-> (IF runFirst THEN 1 ELSE 0) + (IF runSecond THEN 1 ELSE 0)]

\* A commit of the mounted viewer: the camera effects run against the camera.
Commit(shapesChanged, triggerChanged, shps, trigger, cam, tgt) ==
    LET r == RunEffects(shapesChanged, triggerChanged, shps, trigger, cam, tgt)
    IN /\ camera' = r.camera
       /\ controlsTarget' = r.target
       /\ fitRuns' = r.runs

(***************************************************************************)
(* Viewer shell.                                                           *)
(***************************************************************************)
\* Mount of GeometryViewer with the given props.
InitWith(shps, p, g, f) ==
    /\ shapes = shps
    /\ externalShowPoints = p
    /\ externalShowGrid = g
    /\ externalShowFill = f
    /\ showPoints = Coalesce(p, TRUE)
    /\ showGrid = Coalesce(g, TRUE)
    /\ showFill = Coalesce(f, TRUE)
    /\ resetTrigger = 0
    /\ hoveredPoint = Null
    /\ entered = {}
    /\ LET r == IF shps = <<>>
                THEN [camera |-> InitialCamera, target |-> InitialTarget, runs |-> 0]
                ELSE RunEffects(TRUE, TRUE, shps, 0, InitialCamera, InitialTarget)
       IN /\ camera = r.camera
          /\ controlsTarget = r.target
          /\ fitRuns = r.runs

\* App renders <GeometryViewer shapes={...} /> without the optional props.
Init == \E shps \in ShapeSets : InitWith(shps, Undefined, Undefined, Undefined)

\* A marker mesh that is no longer rendered is unmounted: it delivers no
\* further event, and no onPointerOut.
StillRendered(shps, points, m) ==
    /\ m[1] \in 1..Len(shps)
    /\ m[2] \in 1..Len(MarkerPrimitives(shps[m[1]], points))

\* The parent renders the viewer with a new shapes array.
SetShapes(newShapes) ==
    /\ shapes' = newShapes
    /\ UNCHANGED <<externalShowPoints, externalShowGrid, externalShowFill,
                   showPoints, showGrid, showFill, resetTrigger, hoveredPoint>>
    /\ entered' = {m \in entered : /\ m[1] <= Len(newShapes)
                                   /\ newShapes[m[1]].id = shapes[m[1]].id
                                   /\ StillRendered(newShapes, showPoints, m)}
    /\ IF newShapes = <<>>
       THEN /\ camera' = InitialCamera
            /\ controlsTarget' = InitialTarget
            /\ fitRuns' = 0
       ELSE IF shapes = <<>>
            THEN Commit(TRUE, TRUE, newShapes, resetTrigger, InitialCamera, InitialTarget)
            ELSE Commit(TRUE, FALSE, newShapes, resetTrigger, camera, controlsTarget)

\* handleReset, the Reset View button.
HandleReset ==
    /\ CanvasMounted
    /\ resetTrigger < MaxResets
    /\ resetTrigger' = resetTrigger + 1
    /\ Commit(FALSE, TRUE, shapes, resetTrigger + 1, camera, controlsTarget)
    /\ UNCHANGED <<shapes, externalShowPoints, externalShowGrid, externalShowFill,
                   showPoints, showGrid, showFill, hoveredPoint, entered>>

TogglePoints ==
    /\ CanvasMounted
    /\ showPoints' = ~showPoints
    /\ Commit(FALSE, FALSE, shapes, resetTrigger, camera, controlsTarget)
    /\ entered' = {m \in entered : StillRendered(shapes, ~showPoints, m)}
    /\ UNCHANGED <<shapes, externalShowPoints, externalShowGrid, externalShowFill,
                   showGrid, showFill, resetTrigger, hoveredPoint>>

ToggleGrid ==
    /\ CanvasMounted
    /\ showGrid' = ~showGrid
    /\ Commit(FALSE, FALSE, shapes, resetTrigger, camera, controlsTarget)
    /\ UNCHANGED <<shapes, externalShowPoints, externalShowGrid, externalShowFill,
                   showPoints, showFill, resetTrigger, hoveredPoint, entered>>

ToggleFill_SetsPoints ==
    /\ CanvasMounted
    /\ \E s \in 1..Len(shapes) : shapes[s].type = "polygon"
    /\ showFill' = ~showFill
    /\ showPoints' = ~showFill
    /\ Commit(FALSE, FALSE, shapes, resetTrigger, camera, controlsTarget)
    /\ UNCHANGED <<shapes, externalShowPoints, externalShowGrid, externalShowFill,
                   showGrid, resetTrigger, hoveredPoint, entered>>

\* The fill button exists only when some shape is a polygon.
ToggleFill ==
    /\ CanvasMounted
    /\ \E s \in 1..Len(shapes) : shapes[s].type = "polygon"
    /\ showFill' = ~showFill
    /\ Commit(FALSE, FALSE, shapes, resetTrigger, camera, controlsTarget)
    /\ UNCHANGED <<shapes, externalShowPoints, externalShowGrid, externalShowFill,
                   showPoints, showGrid, resetTrigger, hoveredPoint, entered>>

(***************************************************************************)
(* Hover layer: the pointer handlers of the marker at points3D[i - 1] of   *)
(* shapes[s - 1].                                                          *)
(***************************************************************************)
\* [e.clientX, e.clientY] of a pointer event.
MousePositions == {<<120, 80>>}

MarkerRendered(s, i) ==
    /\ CanvasMounted
    /\ s \in 1..Len(shapes)
    /\ i \in 1..Len(MarkerPrimitives(shapes[s], showPoints))

HoverInfo(s, i, mouse) ==
    [point |-> Points3D(shapes[s])[i], index |-> i - 1,
     mouse |-> mouse, shapeIndex |-> s - 1]

SetHoveredPoint(info) ==
    /\ hoveredPoint' = info
    /\ Commit(FALSE, FALSE, shapes, resetTrigger, camera, controlsTarget)
    /\ UNCHANGED <<shapes, externalShowPoints, externalShowGrid, externalShowFill,
                   showPoints, showGrid, showFill, resetTrigger>>

\* onPointerOver: a pointer comes over the marker.
PointerOver(s, i, mouse) ==
    /\ MarkerRendered(s, i)
    /\ <<s, i>> \notin entered
    /\ Cardinality(entered) < MaxPointers
    /\ entered' = entered \cup {<<s, i>>}
    /\ SetHoveredPoint(Some(HoverInfo(s, i, mouse)))

\* onPointerMove: a pointer moves over the marker it is on.
PointerMove(s, i, mouse) ==
    /\ MarkerRendered(s, i)
    /\ <<s, i>> \in entered
    /\ entered' = entered
    /\ SetHoveredPoint(Some(HoverInfo(s, i, mouse)))

\* onPointerOut: the pointer leaves the marker it was on.
PointerOut(s, i) ==
    /\ MarkerRendered(s, i)
    /\ <<s, i>> \in entered
    /\ entered' = entered \ {<<s, i>>}
    /\ SetHoveredPoint(Null)

(***************************************************************************)
(* OrbitControls: pan and zoom by the user (rotation is disabled).         *)
(***************************************************************************)
PanTargets == {Pt(Div(-2, 1), Div(3, 1))}

ZoomLevels == {Div(3, 1)}

UserPan(p) ==
    /\ CanvasMounted
    /\ camera' = [camera EXCEPT !.position.x = p.x, !.position.y = p.y]
    /\ controlsTarget' = [controlsTarget EXCEPT !.x = p.x, !.y = p.y]
    /\ fitRuns' = 0
    /\ UNCHANGED <<shapes, externalShowPoints, externalShowGrid, externalShowFill,
                   showPoints, showGrid, showFill, resetTrigger, hoveredPoint,
                   entered>>

UserZoom(z) ==
    /\ CanvasMounted
    /\ camera' = [camera EXCEPT !.zoom = z]
    /\ fitRuns' = 0
    /\ UNCHANGED <<shapes, externalShowPoints, externalShowGrid, externalShowFill,
                   showPoints, showGrid, showFill, resetTrigger, hoveredPoint,
                   controlsTarget, entered>>

Next ==
    \/ \E newShapes \in ShapeSets : SetShapes(newShapes)
    \/ HandleReset
    \/ TogglePoints
    \/ ToggleGrid
    \/ ToggleFill
    \/ \E s \in 1..Len(shapes) : \E i \in 1..Len(Points3D(shapes[s])) :
          \E m \in MousePositions : PointerOver(s, i, m)
    \/ \E m \in entered, mouse \in MousePositions : PointerMove(m[1], m[2], mouse)
    \/ \E m \in entered : PointerOut(m[1], m[2])
    \/ \E p \in PanTargets : UserPan(p)
    \/ \E z \in ZoomLevels : UserZoom(z)

Spec == Init /\ [][Next]_vars

(***************************************************************************)
(* The viewer under a parent that passes the optional props and changes    *)
(* them.                                                                   *)
(***************************************************************************)
SyncProp_MountOnly(prev, new, flag) == flag

\* useEffect(() => { if (prop !== undefined) setFlag(prop) }, [prop])
SyncProp(prev, new, flag) ==
    IF new # prev /\ new # Undefined THEN new[1] ELSE flag

\* The parent renders the viewer with the same shapes and changed props.
SetProps(p, g, f) ==
    /\ <<p, g, f>> # <<externalShowPoints, externalShowGrid, externalShowFill>>
    /\ externalShowPoints' = p
    /\ externalShowGrid' = g
    /\ externalShowFill' = f
    /\ showPoints' = SyncProp(externalShowPoints, p, showPoints)
    /\ entered' = {m \in entered : StillRendered(shapes, showPoints', m)}
    /\ showGrid' = SyncProp(externalShowGrid, g, showGrid)
    /\ showFill' = SyncProp(externalShowFill, f, showFill)
    /\ IF CanvasMounted
       THEN Commit(FALSE, FALSE, shapes, resetTrigger, camera, controlsTarget)
       ELSE UNCHANGED <<camera, controlsTarget>> /\ fitRuns' = 0
    /\ UNCHANGED <<shapes, resetTrigger, hoveredPoint>>

InitControlled ==
    \E shps \in ShapeSets, p \in OptBool, g \in OptBool, f \in OptBool :
        InitWith(shps, p, g, f)

NextControlled ==
    \/ \E p \in OptBool, g \in OptBool, f \in OptBool : SetProps(p, g, f)
    \/ \E newShapes \in ShapeSets : SetShapes(newShapes)
    \/ HandleReset
    \/ TogglePoints
    \/ ToggleGrid
    \/ ToggleFill

SpecControlled == InitControlled /\ [][NextControlled]_vars

(***************************************************************************)
(* Properties.                                                             *)
(***************************************************************************)
AllPoints == FlatMapPoints(shapes)

PointSet == Range(AllPoints)

SetMin(S) == CHOOSE v \in S : \A u \in S : v <= u

SetMax(S) == CHOOSE v \in S : \A u \in S : v >= u

FirstPoint(shape) == shape.points[1]

LastPoint(shape) == shape.points[Len(shape.points)]

\* C1: after every run of the camera fit on a shape set with at least one
\* point, the camera zoom is positive and finite, also when the bounding box
\* has zero width, zero height or both.
C1_FitZoomPositiveFinite ==
    (fitRuns > 0 /\ Len(AllPoints) > 0)
        => (IsFinite(camera.zoom) /\ IsPositive(camera.zoom))

\* C2: for every shape whose markers are visible the number of point markers
\* equals the length of the shape's original points sequence.
C2_MarkerCountIsPointCount ==
    \A s \in 1..Len(shapes) :
        MarkersVisible(shapes[s], showPoints)
            => Len(Markers[s]) = Len(shapes[s].points)

\* C3 as stated: every polygon whose first and last points differ gets a line
\* of points.length + 1 vertices ending at the first point; a polygon already
\* closed keeps points.length vertices; polylines and point clouds get no
\* closing vertex.
C3_ClosingRuleAsStated ==
    \A s \in 1..Len(shapes) :
        LET shape == shapes[s]
            n == Len(shape.points)
            v == Points3D(shape)
        IN /\ (shape.type = "polygon" /\ n > 0 /\ FirstPoint(shape) # LastPoint(shape))
                => (Len(v) = n + 1 /\ v[n + 1] = To3D(FirstPoint(shape)))
           /\ (shape.type = "polygon" /\ n > 0 /\ FirstPoint(shape) = LastPoint(shape))
                => Len(v) = n
           /\ shape.type # "polygon" => Len(v) = n

\* C3 amended: a polygon of more than two points whose first and last points
\* differ gets a line of points.length + 1 vertices, the last equal to the
\* first; every other polygon (already closed, or of at most two points), every
\* polyline and every point cloud gets exactly its points, in order; vertices
\* 1..points.length are always the stored points; a point cloud has no line.
C3_ClosingRule ==
    \A s \in 1..Len(shapes) :
        LET shape == shapes[s]
            n == Len(shape.points)
            v == Points3D(shape)
            open == shape.type = "polygon" /\ n > 2
                    /\ FirstPoint(shape) # LastPoint(shape)
        IN /\ open => (Len(v) = n + 1 /\ v[n + 1] = To3D(FirstPoint(shape)))
           /\ ~open => Len(v) = n
           /\ \A i \in 1..n : v[i] = To3D(shape.points[i])
           /\ shape.type = "points" <=> Outlines[s] = Null
           /\ shape.type # "points" => Outlines[s][1].vertices = v

\* An open polygon of more than two points is rendered with its closing vertex.
C3_Witness ==
    \E s \in 1..Len(shapes) :
        /\ shapes[s].type = "polygon"
        /\ Len(shapes[s].points) > 2
        /\ FirstPoint(shapes[s]) # LastPoint(shapes[s])
        /\ Len(Outlines[s][1].vertices) = Len(shapes[s].points) + 1

IsHovered(s, i) ==
    /\ hoveredPoint # Null
    /\ hoveredPoint[1].shapeIndex = s - 1
    /\ hoveredPoint[1].index = i - 1

\* C4: a pointer-leave from a marker clears the hovered point only if that
\* marker is the one currently hovered; a leave from a marker that another
\* marker's enter/move has superseded leaves the hovered point as it is; an
\* enter/move sets the hovered point to that marker's info.
C4_LeaveClearsOnlyCurrent ==
    [][\A s \in 1..Len(shapes) : \A i \in 1..Len(Markers[s]) :
          /\ (PointerOut(s, i) /\ IsHovered(s, i)) => hoveredPoint' = Null
          /\ (PointerOut(s, i) /\ hoveredPoint # Null /\ ~IsHovered(s, i))
                => hoveredPoint' = hoveredPoint
          /\ \A m \in MousePositions :
                (PointerOver(s, i, m) \/ PointerMove(s, i, m))
                    => hoveredPoint' = Some(HoverInfo(s, i, m))]_vars

FitOf(cam, tgt, shps) == ResetCameraView(cam, tgt, shps)

\* C5: the camera fit runs when, and only when, the shapes reference changes
\* (the first mount included) or the reset counter increments.  Reset View
\* increments resetTrigger by exactly 1 and re-fits against the current shapes;
\* toggling showPoints/showGrid/showFill and hover events change neither the
\* reset counter nor the camera position, the pan target or the zoom.
C5_FitTriggers ==
    /\ (CanvasMounted => fitRuns > 0)
    /\ [][/\ resetTrigger' # resetTrigger =>
               /\ resetTrigger' = resetTrigger + 1
               /\ shapes' = shapes
               /\ fitRuns' = 1
               /\ camera' = FitOf(camera, controlsTarget, shapes).camera
               /\ controlsTarget' = FitOf(camera, controlsTarget, shapes).target
          /\ (SetShapes(shapes') /\ shapes' # <<>>) =>
               /\ fitRuns' > 0
               /\ camera' = FitOf(camera, controlsTarget, shapes').camera
               /\ controlsTarget' = FitOf(camera, controlsTarget, shapes').target
          /\ fitRuns' > 0 => (resetTrigger' = resetTrigger + 1 \/ SetShapes(shapes'))
          /\ (\/ showPoints' # showPoints
              \/ showGrid' # showGrid
              \/ showFill' # showFill
              \/ hoveredPoint' # hoveredPoint) =>
               /\ UNCHANGED <<resetTrigger, camera, controlsTarget>>
               /\ fitRuns' = 0]_vars

\* A Reset View click has re-fitted a viewer whose grid was toggled off and
\* whose marker is hovered.
C5_Witness ==
    /\ resetTrigger > 0
    /\ fitRuns = 1
    /\ Len(AllPoints) > 0
    /\ hoveredPoint # Null
    /\ ~showGrid
    /\ camera = FitOf(InitialCamera, InitialTarget, shapes).camera

ExternalProps == <<externalShowPoints, externalShowGrid, externalShowFill>>

\* One flag across a step: prev/new are the prop before and after, old/cur the
\* flag before and after.
PropPrecedence(prev, new, old, cur, propsChanged) ==
    /\ (new # prev /\ new # Undefined) => cur = new[1]
    /\ (propsChanged /\ new = Undefined) => cur = old
    /\ (propsChanged /\ new = prev) => cur = old

\* C6: for each of showPoints, showGrid and showFill the flag starts as the prop
\* when provided and as true otherwise; a change of the prop to a defined value
\* v sets the flag to v whatever the user toggled before; a prop that is
\* undefined or unchanged leaves the flag alone; a user toggle flips the flag
\* and never writes the prop.
C6_PropPrecedence ==
    /\ showPoints = Coalesce(externalShowPoints, TRUE)
    /\ showGrid = Coalesce(externalShowGrid, TRUE)
    /\ showFill = Coalesce(externalShowFill, TRUE)
    /\ [][LET changed == ExternalProps' # ExternalProps IN
          /\ PropPrecedence(externalShowPoints, externalShowPoints',
                            showPoints, showPoints', changed)
          /\ PropPrecedence(externalShowGrid, externalShowGrid',
                            showGrid, showGrid', changed)
          /\ PropPrecedence(externalShowFill, externalShowFill',
                            showFill, showFill', changed)
          /\ TogglePoints => (showPoints' = ~showPoints /\ ~changed)
          /\ ToggleGrid => (showGrid' = ~showGrid /\ ~changed)
          /\ ToggleFill => (showFill' = ~showFill /\ ~changed)]_vars

\* The user has toggled points off under a prop that says true, the fill prop
\* went to false and set the flag, and the grid prop is undefined.
C6_Witness ==
    /\ externalShowPoints = Some(TRUE) /\ ~showPoints
    /\ externalShowFill = Some(FALSE) /\ ~showFill
    /\ externalShowGrid = Undefined /\ ~showGrid

OriginalRing(shape) ==
    IF Len(shape.points) > 1 /\ LastPoint(shape) = FirstPoint(shape)
    THEN SubSeq(shape.points, 1, Len(shape.points) - 1)
    ELSE shape.points

\* C8: for every polygon rendered with showFill true the fill is built from
\* the shape's points except a closing duplicate of the first point, in order;
\* a non-polygon shape, or showFill false, yields no fill.
C8_FillCoversOriginalPoints ==
    \A s \in 1..Len(shapes) :
        /\ (shapes[s].type = "polygon" /\ showFill /\ Len(shapes[s].points) > 2)
              => (Fills[s] # Null /\ Fills[s][1].vertices = OriginalRing(shapes[s]))
        /\ (shapes[s].type # "polygon" \/ ~showFill) => Fills[s] = Null

\* C9: a toggle of showFill changes only the fill primitives: with showFill off
\* there is no fill, every shape's outline and markers are the same before and
\* after, and showPoints, showGrid, the reset counter and the hovered point
\* are unchanged.
C9_FillToggleFrame ==
    [][showFill' # showFill =>
          /\ \E s \in 1..Len(shapes) : shapes[s].type = "polygon"
          /\ Outlines' = Outlines
          /\ Markers' = Markers
          /\ ~showFill' => \A s \in 1..Len(shapes) : (Fills')[s] = Null
          /\ UNCHANGED <<shapes, showPoints, showGrid, resetTrigger, hoveredPoint>>]_vars

\* The fill of a rendered polygon has been toggled off while its markers are
\* shown and one of them is hovered.
C9_Witness ==
    /\ ~showFill
    /\ showPoints
    /\ hoveredPoint # Null
    /\ \E s \in 1..Len(shapes) :
          /\ shapes[s].type = "polygon"
          /\ Len(shapes[s].points) > 2
          /\ Fills[s] = Null
          /\ Outlines[s] # Null
          /\ Len(Markers[s]) > 0

\* The draw-order priority the layering gives each kind of primitive.
LayerPriority(kind) ==
    CASE kind = "grid" -> 0
      [] kind = "axis" -> 1
      [] kind \in {"line", "lineLoop", "fill"} -> 2
      [] kind = "marker" -> 999

\* C10: in every rendered state each emitted primitive carries the draw-order
\* priority of its layer: grid 0, axis lines 1, shape outlines and polygon
\* fills 2, point markers 999, so grid < axis < outlines and fills < markers.
C10_DrawOrder ==
    \A p \in ScenePrimitives : p.renderOrder = LayerPriority(p.kind)

\* What the claim asks of the info a marker <<s, i>> reports: the index of its
\* shape, an index into the shape's stored points, and that point.
ReportsOriginalPoint(info, s) ==
    /\ info.shapeIndex = s - 1
    /\ 0 <= info.index
    /\ info.index < Len(shapes[s].points)
    /\ info.point.x = shapes[s].points[info.index + 1].x
    /\ info.point.y = shapes[s].points[info.index + 1].y

\* C11: every hover event (pointer-enter or pointer-move) reported by a marker
\* of shape s carries shapeIndex = the index of s in the shape set and a point
\* index within s's original points, 0 <= index < s.points.length, with point
\* equal to s.points[index]; open polygons included.
C11_HoverReportsOriginalPoint ==
    [][\A m \in entered' : \A mouse \in MousePositions :
          (PointerOver(m[1], m[2], mouse) \/ PointerMove(m[1], m[2], mouse))
              => /\ hoveredPoint' # Null
                 /\ ReportsOriginalPoint(hoveredPoint'[1], m[1])]_vars

\* C12: whenever the hovered point is non-null and the tooltip is displayed
\* (the shape set is not empty), it refers to a marker that is rendered now:
\* shapeIndex < shapes.length, that shape's markers are visible, and index
\* addresses one of that shape's current markers.
C12_HoverRefersToRenderedMarker ==
    (hoveredPoint # Null /\ CanvasMounted)
        => LET h == hoveredPoint[1] IN
           /\ h.shapeIndex < Len(shapes)
           /\ MarkersVisible(shapes[h.shapeIndex + 1], showPoints)
           /\ h.index < Len(Markers[h.shapeIndex + 1])

====
